---- MODULE Spec2Model ----
(***************************************************************************)
(* Model of trading_bot.py: class BasicBot (request signing, transport,    *)
(* the three single-shot order builders) and BasicBot.place_twap.          *)
(*                                                                         *)
(* Text is modelled as a sequence of one-character strings, so that        *)
(* str.upper, urlencode and str(float) are computed character by           *)
(* character.  Fixed literals of a log format string are kept as one       *)
(* element each.  The HMAC-SHA256 hex digest is one opaque element that    *)
(* is an injective function of key and message (no collisions).            *)
(***************************************************************************)
EXTENDS Integers, Sequences, FiniteSets, TLC

VARIABLES
    pc,          \* position of the one call the process makes
    call,        \* the arguments of that call
    i,           \* place_twap: loop index
    slice_qty,   \* place_twap: local slice_qty
    responses,   \* place_twap: local list responses
    outcome,     \* what the call gave its caller: a return value or an exception
    wire,        \* the HTTP requests handed to session.post / session.get
    logs,        \* the records given to the logger
    events,      \* place_twap: dispatch / record / sleep, in the order they happened
    now,         \* time.time() in milliseconds
    lib          \* requests version: is its JSONDecodeError a RequestException

vars == <<pc, call, i, slice_qty, responses, outcome, wire, logs, events, now, lib>>

(***************************************************************************)
(* Bounds of the model.                                                    *)
(***************************************************************************)
MaxSlices == 3

(***************************************************************************)
(* Program constants.                                                      *)
(***************************************************************************)
ROUND_DIGITS == 8          \* round(slice_qty, 8)
TIMEOUT_S == 10            \* timeout=10
MANT_BITS == 53            \* significand of a Python float (IEEE-754 double)
REPR_MIN_EXP == 4          \* float repr is fixed-point for 1e-4 <= x < 1e16
REPR_MAX_EXP == 16
T0 == 1700                 \* the clock when the call starts

----------------------------------------------------------------------------
(***************************************************************************)
(* Text helpers.                                                           *)
(***************************************************************************)
RECURSIVE Pow(_, _)
Pow(b, e) == IF e = 0 THEN 1 ELSE b * Pow(b, e - 1)

Digit(d) == <<"0", "1", "2", "3", "4", "5", "6", "7", "8", "9">>[d + 1]

\* str(int) for n >= 0
RECURSIVE IntStr(_)
IntStr(n) == IF n < 10 THEN <<Digit(n)>> ELSE IntStr(n \div 10) \o <<Digit(n % 10)>>

\* the k decimal digits of n, zero padded on the left
RECURSIVE Padded(_, _)
Padded(n, k) == IF k = 0 THEN <<>> ELSE Padded(n \div 10, k - 1) \o <<Digit(n % 10)>>

RECURSIVE StripZeros(_)
StripZeros(s) ==
    IF s # <<>> /\ s[Len(s)] = "0" THEN StripZeros(SubSeq(s, 1, Len(s) - 1)) ELSE s

\* the concatenation of a sequence of sequences (by halves: shallow recursion)
RECURSIVE Flatten(_)
Flatten(ss) ==
    IF ss = <<>> THEN <<>>
    ELSE IF Len(ss) = 1 THEN ss[1]
    ELSE LET h == Len(ss) \div 2
         IN  Flatten(SubSeq(ss, 1, h)) \o Flatten(SubSeq(ss, h + 1, Len(ss)))

Contains(s, c) == \E k \in 1..Len(s) : s[k] = c

LowerLetters == <<"a", "b", "c", "d", "e", "f", "g", "h", "i", "j", "k", "l", "m",
                  "n", "o", "p", "q", "r", "s", "t", "u", "v", "w", "x", "y", "z">>
UpperLetters == <<"A", "B", "C", "D", "E", "F", "G", "H", "I", "J", "K", "L", "M",
                  "N", "O", "P", "Q", "R", "S", "T", "U", "V", "W", "X", "Y", "Z">>
DigitChars == {"0", "1", "2", "3", "4", "5", "6", "7", "8", "9"}

\* str.upper()
UpperChar(c) ==
    IF \E k \in 1..26 : LowerLetters[k] = c
    THEN UpperLetters[CHOOSE k \in 1..26 : LowerLetters[k] = c]
    ELSE c
Upper(s) == [k \in 1..Len(s) |-> UpperChar(s[k])]

\* str.lower()
LowerChar(c) ==
    IF \E k \in 1..26 : UpperLetters[k] = c
    THEN LowerLetters[CHOOSE k \in 1..26 : UpperLetters[k] = c]
    ELSE c
Lower(s) == [k \in 1..Len(s) |-> LowerChar(s[k])]

\* str(bool)
BoolStr(b) == IF b THEN <<"T", "r", "u", "e">> ELSE <<"F", "a", "l", "s", "e">>

(***************************************************************************)
(* urllib.parse.urlencode: quote_plus of every key and value, joined by    *)
(* "=" and "&" in the mapping's insertion order.                           *)
(***************************************************************************)
QuoteSafe == {LowerLetters[k] : k \in 1..26} \cup {UpperLetters[k] : k \in 1..26}
             \cup DigitChars \cup {"_", ".", "-", "~"}

PercentCode(c) ==
    CASE c = "/" -> <<"%", "2", "F">>
      [] c = "&" -> <<"%", "2", "6">>
      [] c = "=" -> <<"%", "3", "D">>
      [] c = "+" -> <<"%", "2", "B">>
      [] c = "?" -> <<"%", "3", "F">>
      [] c = ":" -> <<"%", "3", "A">>
      [] c = "%" -> <<"%", "2", "5">>

QuoteChar(c) ==
    IF c \in QuoteSafe THEN <<c>> ELSE IF c = " " THEN <<"+">> ELSE PercentCode(c)

quote_plus(s) == Flatten([k \in 1..Len(s) |-> QuoteChar(s[k])])

urlencode(params) ==
    Flatten([k \in 1..Len(params) |->
                (IF k > 1 THEN <<"&">> ELSE <<>>)
                \o quote_plus(params[k][1]) \o <<"=">> \o quote_plus(params[k][2])])

(***************************************************************************)
(* Python floats.  A value is w + n/d with 0 <= n < d.  kind "dec": d is   *)
(* 10^8 and the double is the one nearest to that decimal (15 significant  *)
(* digits at most, so repr gives the decimal back).  kind "quot": the      *)
(* exact quotient of a division whose double is closer to it than any      *)
(* 8-place rounding boundary that is not an exact tie.  kind "bin": d is   *)
(* 2^fb, the double itself, for magnitudes where the spacing of doubles,   *)
(* 2^-fb, is coarser than 10^-8.                                           *)
(***************************************************************************)
E8 == Pow(10, ROUND_DIGITS)

Dec(w, n) == [kind |-> "dec", w |-> w, n |-> n, d |-> E8]

RECURSIVE Log2Floor(_)
Log2Floor(x) == IF x < 2 THEN 0 ELSE 1 + Log2Floor(x \div 2)

\* fraction bits of a double whose integer part is x >= 1
FracBits(x) == MANT_BITS - 1 - Log2Floor(x)

\* a / b rounded to the nearest integer, ties to even (IEEE-754 default)
RoundHalfEven(a, b) ==
    LET q == a \div b
        r == a % b
    IN  IF 2 * r < b THEN q
        ELSE IF 2 * r > b THEN q + 1
        ELSE IF q % 2 = 0 THEN q ELSE q + 1

Carry(kind, w, n, d) ==
    IF n = d THEN [kind |-> kind, w |-> w + 1, n |-> 0, d |-> d]
    ELSE [kind |-> kind, w |-> w, n |-> n, d |-> d]

\* float(quantity) / slices
FloatDiv(Q, N) ==
    LET whole == Q.w \div N
        rest == Q.w % N
    IN  CASE whole < Pow(2, 22) ->
               [kind |-> "quot", w |-> whole, n |-> rest * E8 + Q.n, d |-> N * E8]
          [] whole >= Pow(2, 26) /\ Q.n = 0 ->
               LET fb == FracBits(whole)
               IN  Carry("bin", whole, RoundHalfEven(rest * Pow(2, fb), N), Pow(2, fb))

\* round(x, 8).  At an exact decimal tie the binary expansion of the double
\* decides the direction, which tieUp stands for.
Round8(x, tieUp) ==
    CASE x.kind = "dec" -> x
      [] x.kind = "bin" -> x
      [] x.kind = "quot" ->
           LET N == x.d \div E8
               k == x.n \div N
               r == x.n % N
               up == 2 * r > N \/ (2 * r = N /\ tieUp)
           IN  Carry("dec", x.w, IF up THEN k + 1 ELSE k, E8)

\* shortest digits after the point that read back as the same double
\* (free-format digit generation): R / S is what is left, M / S half the spacing
RECURSIVE ShortestFrac(_, _, _, _)
ShortestFrac(R, M, S, even) ==
    LET R10 == R * 10
        M10 == M * 10
        dgt == R10 \div S
        rem == R10 % S
        low == IF even THEN rem <= M10 ELSE rem < M10
        high == IF even THEN rem + M10 >= S ELSE rem + M10 > S
    IN  IF ~low /\ ~high THEN <<Digit(dgt)>> \o ShortestFrac(rem, M10, S, even)
        ELSE IF low /\ ~high THEN <<Digit(dgt)>>
        ELSE IF high /\ ~low THEN <<Digit(dgt + 1)>>
        ELSE IF 2 * rem < S THEN <<Digit(dgt)>> ELSE <<Digit(dgt + 1)>>

\* str(float) (float.__repr__): fixed-point for 1e-4 <= x < 1e16, else exponent form
FloatStr(x) ==
    CASE x.kind = "dec" /\ x.w = 0 /\ x.n = 0 -> <<"0", ".", "0">>
      [] x.kind = "dec" /\ x.w = 0 /\ x.n > 0 /\ x.n < Pow(10, ROUND_DIGITS - REPR_MIN_EXP) ->
           LET ds == StripZeros(IntStr(x.n))
               ex == ROUND_DIGITS - (Len(IntStr(x.n)) - 1)
           IN  <<ds[1]>> \o (IF Len(ds) > 1 THEN <<".">> \o Tail(ds) ELSE <<>>)
               \o <<"e", "-">> \o Padded(ex, 2)
      [] x.kind = "dec" /\ (x.w > 0 \/ x.n >= Pow(10, ROUND_DIGITS - REPR_MIN_EXP))
                       /\ Len(IntStr(x.w)) <= REPR_MAX_EXP ->
           IntStr(x.w) \o <<".">>
           \o (IF x.n = 0 THEN <<"0">> ELSE StripZeros(Padded(x.n, ROUND_DIGITS)))
      [] x.kind = "bin" /\ Len(IntStr(x.w)) <= REPR_MAX_EXP ->
           IntStr(x.w) \o <<".">>
           \o (IF x.n = 0 THEN <<"0">> ELSE ShortestFrac(2 * x.n, 1, 2 * x.d, x.n % 2 = 0))

----------------------------------------------------------------------------
(***************************************************************************)
(* The bot after construction, and what the exchange can answer.           *)
(***************************************************************************)
Chars(str) ==
    CASE str = "btcusdt" -> <<"b", "t", "c", "u", "s", "d", "t">>
      [] str = "eth/usdt" -> <<"e", "t", "h", "/", "u", "s", "d", "t">>
      [] str = "buy" -> <<"b", "u", "y">>
      [] str = "SELL" -> <<"S", "E", "L", "L">>
      [] str = "POST" -> <<"P", "O", "S", "T">>
      [] str = "GET" -> <<"G", "E", "T">>
      [] str = "MARKET" -> <<"M", "A", "R", "K", "E", "T">>
      [] str = "LIMIT" -> <<"L", "I", "M", "I", "T">>
      [] str = "STOP" -> <<"S", "T", "O", "P">>
      [] str = "GTC" -> <<"G", "T", "C">>
      [] str = "symbol" -> <<"s", "y", "m", "b", "o", "l">>
      [] str = "side" -> <<"s", "i", "d", "e">>
      [] str = "type" -> <<"t", "y", "p", "e">>
      [] str = "quantity" -> <<"q", "u", "a", "n", "t", "i", "t", "y">>
      [] str = "price" -> <<"p", "r", "i", "c", "e">>
      [] str = "stopPrice" -> <<"s", "t", "o", "p", "P", "r", "i", "c", "e">>
      [] str = "timeInForce" -> <<"t", "i", "m", "e", "I", "n", "F", "o", "r", "c", "e">>
      [] str = "reduceOnly" -> <<"r", "e", "d", "u", "c", "e", "O", "n", "l", "y">>
      [] str = "timestamp" -> <<"t", "i", "m", "e", "s", "t", "a", "m", "p">>
      [] str = "signature" -> <<"s", "i", "g", "n", "a", "t", "u", "r", "e">>
      [] str = "s3cr3t" -> <<"s", "3", "c", "r", "3", "t">>

DEFAULT_TESTNET_BASE == <<"https://testnet.binancefuture.com">>
base_url == DEFAULT_TESTNET_BASE
api_secret == Chars("s3cr3t")
ORDER_PATH == <<"/fapi/v1/order">>

Symbols == {Chars("btcusdt"), Chars("eth/usdt")}
Sides == {Chars("buy"), Chars("SELL")}
\* 0.001, 0.00001, 0.00000005 and 1000000000.0
Quantities == {Dec(0, 100000), Dec(0, 1000), Dec(0, 5), Dec(1000000000, 0)}
\* 30000.5 and 29500.0
Prices == {Dec(30000, 50000000), Dec(29500, 0)}
TwapSymbols == {Chars("btcusdt")}
TwapSides == {Chars("SELL")}
\* 0.001, 0.00000005 and 1000000000.0
TwapQuantities == {Dec(0, 100000), Dec(0, 5), Dec(1000000000, 0)}
SliceCounts == (-1)..MaxSlices
Intervals == {-1, 0, 2}

\* What a request can meet: no answer at all (connection error, timeout), or an
\* answer with a status and a body.
BODY_OK == "{\"orderId\": 1}"
BODY_REJECT == "{\"code\": -1102}"
BODY_HTML == "<html>"
Answers ==
    { [net |-> FALSE, status |-> 0, text |-> ""],
      [net |-> TRUE, status |-> 200, text |-> BODY_OK],
      [net |-> TRUE, status |-> 200, text |-> BODY_HTML],
      [net |-> TRUE, status |-> 300, text |-> BODY_OK],
      [net |-> TRUE, status |-> 400, text |-> BODY_REJECT] }

\* Response.json()
JsonParses(text) == text \in {BODY_OK, BODY_REJECT}
JsonDecode(text) == [json |-> text]

\* a status check that lets 4xx through
RaisesForServerError(status) == 500 <= status /\ status < 600

\* Response.raise_for_status(): HTTPError for 4xx and 5xx
RaisesForStatus(status) == 400 <= status /\ status < 600

\* An exception and str(e).  requests puts the URL it was asked for, query and
\* all, in the text of its connection and status errors.
Exc(name, status, about) == [exc |-> name, status |-> status, about |-> about]
ExcStr(e) ==
    <<e.exc>> \o (IF e.status > 0 THEN <<" ">> \o IntStr(e.status) ELSE <<>>)
    \o (IF e.about # <<>> THEN <<" for url: ">> \o e.about ELSE <<>>)

Log(level, text) == [level |-> level, text |-> text]

(***************************************************************************)
(* BasicBot._sign_payload and BasicBot._send_signed_request                *)
(***************************************************************************)
\* the characters of s as one string
RECURSIVE Join(_)
Join(s) ==
    IF s = <<>> THEN ""
    ELSE IF Len(s) = 1 THEN s[1]
    ELSE LET h == Len(s) \div 2
         IN  Join(SubSeq(s, 1, h)) \o Join(SubSeq(s, h + 1, Len(s)))

\* hmac.new(key, msg, sha256).hexdigest()
HmacHex(key, msg) == <<"hmac-sha256(" \o Join(key) \o "," \o Join(msg) \o ")">>

\* a signer that transmits the parameters in another order than it signed
sign_then_reorder(params) ==
    LET query == urlencode(params)
        moved == urlencode(<<params[Len(params)]>> \o SubSeq(params, 1, Len(params) - 1))
    IN  moved \o <<"&", "s", "i", "g", "n", "a", "t", "u", "r", "e", "=">>
        \o HmacHex(api_secret, query)

sign_payload(params) ==
    LET query == urlencode(params)
    IN  query \o <<"&", "s", "i", "g", "n", "a", "t", "u", "r", "e", "=">>
        \o HmacHex(api_secret, query)

\* params[key] = value on a dict: in place when the key is there, else appended
SetItem(params, key, value) ==
    IF \E k \in 1..Len(params) : params[k][1] = key
    THEN [k \in 1..Len(params) |-> IF params[k][1] = key THEN <<key, value>> ELSE params[k]]
    ELSE Append(params, <<key, value>>)

\* a request line without the query
RequestLineBare(method, url, signed_query) ==
    Log("INFO", <<"REQUEST -> ">> \o Upper(method) \o <<" ">> \o url)

RequestLine(method, url, signed_query) ==
    Log("INFO", <<"REQUEST -> ">> \o Upper(method) \o <<" ">> \o url \o <<"?">> \o signed_query)

\* a transport step that tries again when the connection fails
TransmitWithRetry(request, answer) ==
    IF answer.net THEN <<request>> ELSE <<request, request>>

\* self.session.post(url + '?' + signed_query, timeout=10), once: the requests
\* the session is handed
Transmit(request, answer) == <<request>>

\* What one call of _send_signed_request does: the request it hands to the
\* session (none for an unsupported method), the records it logs, and what it
\* gives its caller.
send_signed_request(method, path, params, ts, answer, jsonErrIsRequestExc) ==
    LET stamped == SetItem(params, Chars("timestamp"), IntStr(ts))
        signed_query == sign_payload(stamped)
        url == base_url \o path
        request == [method |-> Upper(method), url |-> url, query |-> signed_query,
                    timeout |-> TIMEOUT_S, at |-> ts]
        asked == RequestLine(method, url, signed_query)
        answered == Log("INFO", <<"RESPONSE <- ">> \o IntStr(answer.status) \o <<" ", answer.text>>)
        failed(e) == Log("ERROR", <<"HTTP error during signed request: ">> \o ExcStr(e))
        full == url \o <<"?">> \o signed_query
    IN  IF Upper(method) \notin {Chars("POST"), Chars("GET")}
        THEN [sent |-> <<>>, logged |-> <<asked>>,
              result |-> [kind |-> "raise", exc |-> Exc("ValueError", 0, <<>>)]]
        ELSE IF ~answer.net
        THEN [sent |-> Transmit(request, answer), logged |-> <<asked, failed(Exc("ConnectionError", 0, full))>>,
              result |-> [kind |-> "raise", exc |-> Exc("ConnectionError", 0, full)]]
        ELSE IF RaisesForStatus(answer.status)
        THEN [sent |-> Transmit(request, answer),
              logged |-> <<asked, answered, failed(Exc("HTTPError", answer.status, full))>>,
              result |-> [kind |-> "raise", exc |-> Exc("HTTPError", answer.status, full)]]
        ELSE IF ~JsonParses(answer.text)
        THEN [sent |-> Transmit(request, answer),
              logged |-> <<asked, answered>>
                         \o (IF jsonErrIsRequestExc
                             THEN <<failed(Exc("JSONDecodeError", 0, <<>>))>> ELSE <<>>),
              result |-> [kind |-> "raise", exc |-> Exc("JSONDecodeError", 0, <<>>)]]
        ELSE [sent |-> Transmit(request, answer), logged |-> <<asked, answered>>,
              result |-> [kind |-> "return", value |-> JsonDecode(answer.text)]]

(***************************************************************************)
(* The order builders.                                                     *)
(***************************************************************************)
MarketParams(symbol, side, quantity, reduce_only) ==
    << <<Chars("symbol"), Upper(symbol)>>,
       <<Chars("side"), Upper(side)>>,
       <<Chars("type"), Chars("MARKET")>>,
       <<Chars("quantity"), FloatStr(quantity)>>,
       <<Chars("reduceOnly"), Lower(BoolStr(reduce_only))>> >>

LimitParams(symbol, side, quantity, price, time_in_force, reduce_only) ==
    << <<Chars("symbol"), Upper(symbol)>>,
       <<Chars("side"), Upper(side)>>,
       <<Chars("type"), Chars("LIMIT")>>,
       <<Chars("timeInForce"), time_in_force>>,
       <<Chars("quantity"), FloatStr(quantity)>>,
       <<Chars("price"), FloatStr(price)>>,
       <<Chars("reduceOnly"), Lower(BoolStr(reduce_only))>> >>

StopLimitParams(symbol, side, quantity, stopPrice, price, time_in_force) ==
    << <<Chars("symbol"), Upper(symbol)>>,
       <<Chars("side"), Upper(side)>>,
       <<Chars("type"), Chars("STOP")>>,
       <<Chars("stopPrice"), FloatStr(stopPrice)>>,
       <<Chars("price"), FloatStr(price)>>,
       <<Chars("timeInForce"), time_in_force>>,
       <<Chars("quantity"), FloatStr(quantity)>> >>

place_market_order(symbol, side, quantity, reduce_only, ts, answer, jsonErr) ==
    send_signed_request(Chars("POST"), ORDER_PATH,
                        MarketParams(symbol, side, quantity, reduce_only), ts, answer, jsonErr)

place_limit_order(symbol, side, quantity, price, time_in_force, reduce_only, ts, answer, jsonErr) ==
    send_signed_request(Chars("POST"), ORDER_PATH,
                        LimitParams(symbol, side, quantity, price, time_in_force, reduce_only),
                        ts, answer, jsonErr)

place_stop_limit(symbol, side, quantity, stopPrice, price, time_in_force, ts, answer, jsonErr) ==
    send_signed_request(Chars("POST"), ORDER_PATH,
                        StopLimitParams(symbol, side, quantity, stopPrice, price, time_in_force),
                        ts, answer, jsonErr)

(***************************************************************************)
(* BasicBot.place_twap, piece by piece.                                    *)
(***************************************************************************)
\* a check of slices that lets 0 through
SlicesRejectedBelowZero(slices) == slices < 0

\* if slices <= 0: raise ValueError
SlicesRejected(slices) == slices <= 0

\* a loop that stops sleeping one slice early
SleepsAfterShort(k, slices) == k < slices - 2

\* if i < slices - 1: time.sleep(interval)
SleepsAfter(k, slices) == k < slices - 1

\* a loop whose except branch forgets the entry
RecordedOnSuccess(log, result) ==
    IF result.kind = "return" THEN Append(log, result.value) ELSE log

\* try: responses.append(resp) / except Exception: responses.append({'error': str(e)})
Recorded(log, result) ==
    IF result.kind = "return" THEN Append(log, result.value)
    ELSE Append(log, [error |-> ExcStr(result.exc)])

\* an exact decimal tie at the 8th place
IsTie(x) == x.kind = "quot" /\ 2 * (x.n % (x.d \div E8)) = x.d \div E8

Ghost(requests, k, qty, answer) ==
    [j \in 1..Len(requests) |-> [req |-> requests[j], slice |-> k, qty |-> qty, answer |-> answer]]

Event(e, k, dur) == [e |-> e, i |-> k, dur |-> dur]

----------------------------------------------------------------------------
Init ==
    /\ pc = "idle"
    /\ call = [op |-> "none"]
    /\ i = 0
    /\ slice_qty = Dec(0, 0)
    /\ responses = <<>>
    /\ outcome = [kind |-> "none"]
    /\ wire = <<>>
    /\ logs = <<Log("INFO", <<"BasicBot initialized with base_url=">> \o base_url)>>
    /\ events = <<>>
    /\ now = T0
    /\ lib \in [jsonErrIsRequestExc : BOOLEAN]

SingleShot(args, r, answer) ==
    /\ call' = args
    /\ wire' = wire \o Ghost(r.sent, -1, args.quantity, answer)
    /\ logs' = logs \o r.logged
    /\ outcome' = r.result
    /\ pc' = "done"
    /\ UNCHANGED <<i, slice_qty, responses, events, now, lib>>

MarketOrder(symbol, side, quantity, reduce_only, answer) ==
    /\ pc = "idle"
    /\ \E r \in {place_market_order(symbol, side, quantity, reduce_only, now, answer,
                                     lib.jsonErrIsRequestExc)} :
          SingleShot([op |-> "market", symbol |-> symbol, side |-> side,
                      quantity |-> quantity, reduce_only |-> reduce_only], r, answer)

LimitOrder(symbol, side, quantity, price, reduce_only, answer) ==
    /\ pc = "idle"
    /\ \E r \in {place_limit_order(symbol, side, quantity, price, Chars("GTC"), reduce_only,
                                    now, answer, lib.jsonErrIsRequestExc)} :
          SingleShot([op |-> "limit", symbol |-> symbol, side |-> side,
                      quantity |-> quantity, price |-> price,
                      time_in_force |-> Chars("GTC"), reduce_only |-> reduce_only], r, answer)

StopLimit(symbol, side, quantity, stopPrice, price, answer) ==
    /\ pc = "idle"
    /\ \E r \in {place_stop_limit(symbol, side, quantity, stopPrice, price, Chars("GTC"),
                                   now, answer, lib.jsonErrIsRequestExc)} :
          SingleShot([op |-> "stop", symbol |-> symbol, side |-> side,
                      quantity |-> quantity, stopPrice |-> stopPrice, price |-> price,
                      time_in_force |-> Chars("GTC")], r, answer)

\* place_twap up to the loop: the check of slices, the division, the start line
TwapStart(symbol, side, quantity, slices, interval, tieUp) ==
    /\ pc = "idle"
    /\ tieUp => slices > 0 /\ IsTie(FloatDiv(quantity, slices))
    /\ call' = [op |-> "twap", symbol |-> symbol, side |-> side, quantity |-> quantity,
                slices |-> slices, interval |-> interval, tieUp |-> tieUp]
    /\ IF SlicesRejected(slices)
       THEN /\ outcome' = [kind |-> "raise", exc |-> Exc("ValueError", 0, <<>>)]
            /\ pc' = "done"
            /\ UNCHANGED <<i, slice_qty, responses, wire, logs, events, now, lib>>
       ELSE IF slices = 0
       THEN /\ outcome' = [kind |-> "raise", exc |-> Exc("ZeroDivisionError", 0, <<>>)]
            /\ pc' = "done"
            /\ UNCHANGED <<i, slice_qty, responses, wire, logs, events, now, lib>>
       ELSE /\ slice_qty' = FloatDiv(quantity, slices)
            /\ responses' = <<>>
            /\ logs' = Append(logs, Log("INFO", <<"Starting TWAP: ">> \o side \o <<" ">> \o symbol
                                  \o <<" total_qty=">> \o FloatStr(quantity)
                                  \o <<" slices=">> \o IntStr(slices)
                                  \o <<" interval=", "<interval>">>))
            /\ i' = 0
            /\ pc' = "twap_slice"
            /\ UNCHANGED <<outcome, wire, events, now, lib>>

\* one turn of the loop up to the sleep: the slice line, the order, the entry
TwapSlice(answer) ==
    /\ pc = "twap_slice"
    /\ \E qty \in {Round8(slice_qty, call.tieUp)} :
       \E r \in {place_market_order(call.symbol, call.side, qty, FALSE, now, answer,
                                    lib.jsonErrIsRequestExc)} :
       \E log \in {Recorded(responses, r.result)} :
          LET sliceLine == Log("INFO", <<"TWAP slice ">> \o IntStr(i + 1) \o <<"/">>
                                       \o IntStr(call.slices) \o <<": qty=", "<slice_qty>">>)
              errorLine == IF r.result.kind = "raise"
                           THEN <<Log("ERROR", <<"Error executing TWAP slice ">>
                                               \o IntStr(i + 1) \o <<": ">>
                                               \o ExcStr(r.result.exc))>>
                           ELSE <<>>
          IN  /\ wire' = wire \o Ghost(r.sent, i, qty, answer)
              /\ logs' = logs \o <<sliceLine>> \o r.logged \o errorLine
              /\ responses' = log
              /\ events' = events \o [j \in 1..Len(r.sent) |-> Event("dispatch", i, 0)]
                                  \o (IF Len(log) > Len(responses)
                                      THEN <<Event("record", i, 0)>> ELSE <<>>)
    /\ pc' = IF SleepsAfter(i, call.slices) THEN "twap_sleep" ELSE "twap_return"
    /\ UNCHANGED <<call, i, slice_qty, outcome, now, lib>>

\* time.sleep(interval), which raises ValueError for a negative length
TwapSleep ==
    /\ pc = "twap_sleep"
    /\ IF call.interval < 0
       THEN /\ outcome' = [kind |-> "raise", exc |-> Exc("ValueError", 0, <<>>)]
            /\ pc' = "done"
            /\ UNCHANGED <<i, events, now>>
       ELSE /\ now' = now + call.interval * 1000
            /\ events' = Append(events, Event("sleep", i, call.interval))
            /\ i' = i + 1
            /\ pc' = "twap_slice"
            /\ UNCHANGED outcome
    /\ UNCHANGED <<call, slice_qty, responses, wire, logs, lib>>

\* return responses
TwapReturn ==
    /\ pc = "twap_return"
    /\ outcome' = [kind |-> "return", value |-> responses]
    /\ pc' = "done"
    /\ UNCHANGED <<call, i, slice_qty, responses, wire, logs, events, now, lib>>

Next ==
    \/ \E symbol \in Symbols, side \in Sides, quantity \in Quantities,
          reduce_only \in BOOLEAN, answer \in Answers :
          MarketOrder(symbol, side, quantity, reduce_only, answer)
    \/ \E symbol \in Symbols, side \in Sides, quantity \in Quantities, price \in Prices,
          reduce_only \in BOOLEAN, answer \in Answers :
          LimitOrder(symbol, side, quantity, price, reduce_only, answer)
    \/ \E symbol \in Symbols, side \in Sides, quantity \in Quantities, stopPrice \in Prices,
          price \in Prices, answer \in Answers :
          StopLimit(symbol, side, quantity, stopPrice, price, answer)
    \/ \E symbol \in TwapSymbols, side \in TwapSides, quantity \in TwapQuantities,
          slices \in SliceCounts, interval \in Intervals, tieUp \in BOOLEAN :
          TwapStart(symbol, side, quantity, slices, interval, tieUp)
    \/ \E answer \in Answers : TwapSlice(answer)
    \/ TwapSleep
    \/ TwapReturn

Spec == Init /\ [][Next]_vars
----------------------------------------------------------------------------
(***************************************************************************)
(* Reading a run back.                                                     *)
(***************************************************************************)
IsPrefix(a, b) == Len(a) <= Len(b) /\ SubSeq(b, 1, Len(a)) = a

\* s cut at every sep
Split(s, sep) ==
    LET P == {k \in 1..Len(s) : s[k] = sep}
        n == Cardinality(P)
        at(j) == IF j = 0 THEN 0
                 ELSE IF j = n + 1 THEN Len(s) + 1
                 ELSE CHOOSE k \in P : Cardinality({m \in P : m < k}) = j - 1
    IN  [j \in 1..(n + 1) |-> SubSeq(s, at(j - 1) + 1, at(j) - 1)]

\* the key=value pairs of a query string, in order, still encoded
ParseQuery(q) ==
    LET parts == Split(q, "&")
    IN  [j \in 1..Len(parts) |-> Split(parts[j], "=")]

Keys(pairs) == [j \in 1..Len(pairs) |-> pairs[j][1]]

SingleOps == {"market", "limit", "stop"}
TwapInContract == call.op = "twap" /\ call.slices >= 1 /\ call.interval >= 0

\* a request met a failure: no answer, a status outside 2xx, or a body that is no JSON
Failed(answer) ==
    ~answer.net \/ answer.status < 200 \/ answer.status >= 300 \/ ~JsonParses(answer.text)

IsErrorEntry(entry) == DOMAIN entry = {"error"}

\* the order parameters the builder of the call assembles for a request
OrderParams(w) ==
    CASE call.op = "market" ->
           MarketParams(call.symbol, call.side, w.qty, call.reduce_only)
      [] call.op = "twap" ->
           MarketParams(call.symbol, call.side, w.qty, FALSE)
      [] call.op = "limit" ->
           LimitParams(call.symbol, call.side, w.qty, call.price, call.time_in_force,
                       call.reduce_only)
      [] call.op = "stop" ->
           StopLimitParams(call.symbol, call.side, w.qty, call.stopPrice, call.price,
                           call.time_in_force)

SignatureTail == <<"&", "s", "i", "g", "n", "a", "t", "u", "r", "e", "=">>

\* what precedes "&signature=<digest>" in a transmitted query, and the digest
SignedPart(q) == SubSeq(q, 1, Len(q) - Len(SignatureTail) - 1)
Digest(q) == q[Len(q)]

----------------------------------------------------------------------------
(***************************************************************************)
(* C1.  A place_twap run with N >= 1 slices (and an interval the contract  *)
(* allows, >= 0) returns a log of exactly N entries; the log only grows    *)
(* by appending, and holds i+1 entries once slice i is done.               *)
(***************************************************************************)
TwapLogLengthNow ==
    TwapInContract =>
        /\ pc = "twap_slice" => Len(responses) = i
        /\ pc \in {"twap_sleep", "twap_return"} => Len(responses) = i + 1
        /\ pc = "done" => /\ outcome.kind = "return"
                          /\ outcome.value = responses
                          /\ Len(outcome.value) = call.slices

TwapLogLength == [](TwapLogLengthNow) /\ [][IsPrefix(responses, responses')]_vars

TwapLogLengthWitness ==
    /\ TwapInContract /\ pc = "done" /\ call.slices = 3
    /\ IsErrorEntry(outcome.value[1])
    /\ ~IsErrorEntry(outcome.value[2])
    /\ IsErrorEntry(outcome.value[3])

(***************************************************************************)
(* C2.  Fail-soft isolation as claimed: an attempt that met a transport    *)
(* failure, a non-2xx status or an undecodable body leaves an error entry  *)
(* at its own position, and every later slice is still attempted.          *)
(***************************************************************************)
FailSoftIsolation ==
    (TwapInContract /\ pc = "done") =>
        /\ Len(wire) = call.slices /\ Len(outcome.value) = call.slices
        /\ \A j \in 1..Len(wire) :
              /\ wire[j].slice = j - 1
              /\ Failed(wire[j].answer) => IsErrorEntry(outcome.value[j])
              /\ ~Failed(wire[j].answer) => outcome.value[j] = JsonDecode(wire[j].answer.text)

(***************************************************************************)
(* C3.  place_twap with slices <= 0 fails with the validation error        *)
(* (ValueError) before anything else: no request, no sleep, no log.        *)
(***************************************************************************)
SliceCountRejected ==
    (call.op = "twap" /\ call.slices <= 0) =>
        /\ pc = "done"
        /\ outcome.kind = "raise" /\ outcome.exc.exc = "ValueError"
        /\ wire = <<>> /\ events = <<>> /\ responses = <<>>

SliceCountRejectedWitness ==
    call.op = "twap" /\ call.slices = 0 /\ pc = "done" /\ outcome.kind = "raise"

(***************************************************************************)
(* C4.  No retry, no skipped slice: a place_twap run of N slices hands     *)
(* the session exactly N requests, one per slice index in order, whatever  *)
(* each one meets; a single-shot placement hands it at most one.           *)
(***************************************************************************)
OneRequestPerSlice ==
    /\ call.op \in SingleOps => Len(wire) <= 1
    /\ TwapInContract =>
          /\ \A j \in 1..Len(wire) : wire[j].slice = j - 1
          /\ pc = "twap_slice" => Len(wire) = i
          /\ pc \in {"twap_sleep", "twap_return"} => Len(wire) = i + 1
          /\ pc = "done" => Len(wire) = call.slices

OneRequestPerSliceWitness ==
    /\ TwapInContract /\ pc = "done" /\ call.slices = 3
    /\ ~wire[1].answer.net /\ wire[2].answer.status = 400 /\ ~Failed(wire[3].answer)

SendOutcome(answer, got) ==
    IF answer.net /\ ~(400 <= answer.status /\ answer.status < 600) /\ JsonParses(answer.text)
    THEN got.kind = "return" /\ got.value = JsonDecode(answer.text)
    ELSE /\ got.kind = "raise"
         /\ ~answer.net => got.exc.exc = "ConnectionError"
         /\ (answer.net /\ 400 <= answer.status /\ answer.status < 600) =>
                got.exc.exc = "HTTPError" /\ got.exc.status = answer.status
         /\ (answer.net /\ answer.status < 400) => got.exc.exc = "JSONDecodeError"

Canonical(n, interval) ==
    [k \in 1..(3 * n - 1) |->
        CASE (k - 1) % 3 = 0 -> Event("dispatch", (k - 1) \div 3, 0)
          [] (k - 1) % 3 = 1 -> Event("record", (k - 1) \div 3, 0)
          [] (k - 1) % 3 = 2 -> Event("sleep", (k - 1) \div 3, interval)]

SequentialSpacing ==
    TwapInContract =>
        /\ IsPrefix(events, Canonical(call.slices, call.interval))
        /\ pc = "done" =>
              /\ events = Canonical(call.slices, call.interval)
              /\ Cardinality({k \in 1..Len(events) : events[k].e = "sleep"}) = call.slices - 1
        /\ \A j \in 1..Len(wire) : \A k \in 1..Len(wire) :
              j < k => wire[k].req.at - wire[j].req.at >= (k - j) * call.interval * 1000

SequentialSpacingWitness ==
    /\ TwapInContract /\ pc = "done" /\ call.slices = 3 /\ call.interval = 2
    /\ Failed(wire[1].answer) /\ Failed(wire[2].answer)
    /\ wire[3].req.at - wire[1].req.at = 4000

(***************************************************************************)
(* C7.  Quantity conservation as claimed: every slice of a run is ordered  *)
(* with the same quantity, that quantity is Q/N rounded to 8 decimal       *)
(* places, and N times it differs from Q by at most N * 10^-8.             *)
(***************************************************************************)
\* N * x - Q as num / den
SumError(x, Q, N) ==
    LET whole == Q.w \div N
        rest == Q.w % N
    IN  IF x.kind = "dec"
        THEN [num |-> (x.w - whole) * N * E8 + N * x.n - rest * E8 - Q.n, den |-> E8]
        ELSE [num |-> (x.w - whole) * N * x.d + N * x.n - rest * x.d, den |-> x.d]

Abs(x) == IF x < 0 THEN -x ELSE x

\* x has at most 8 decimal places and is within half of 10^-8 of Q / N
IsEightPlaceRounding(x, Q, N) ==
    /\ x.kind = "dec" \/ x.n = 0
    /\ 2 * Abs(SumError(x, Q, N).num) * E8 <= N * SumError(x, Q, N).den

QuantityConserved ==
    TwapInContract =>
        \A j \in 1..Len(wire) :
            /\ wire[j].qty = wire[1].qty
            /\ IsEightPlaceRounding(wire[j].qty, call.quantity, call.slices)
            /\ Abs(SumError(wire[j].qty, call.quantity, call.slices).num) * E8
                   <= call.slices * SumError(wire[j].qty, call.quantity, call.slices).den

(***************************************************************************)
(* C8.  The signature is computed over exactly what is transmitted: every  *)
(* transmitted query is the signed string, which is the order parameters   *)
(* in insertion order followed by the timestamp, with signature=<digest>   *)
(* appended last; nothing is added, dropped, moved or re-encoded.          *)
(***************************************************************************)
SignatureCoversQuery ==
    \A j \in 1..Len(wire) :
        LET q == wire[j].req.query
            signed == SignedPart(q)
        IN  /\ SubSeq(q, Len(signed) + 1, Len(q) - 1) = SignatureTail
            /\ <<Digest(q)>> = HmacHex(api_secret, signed)
            /\ signed = urlencode(Append(OrderParams(wire[j]),
                                         <<Chars("timestamp"), IntStr(wire[j].req.at)>>))
            /\ Keys(ParseQuery(q)) = Keys(OrderParams(wire[j]))
                                     \o <<Chars("timestamp"), Chars("signature")>>

SignatureCoversQueryWitness ==
    /\ pc = "done" /\ call.op = "limit" /\ call.symbol = Chars("eth/usdt")
    /\ Len(wire) = 1 /\ Len(ParseQuery(wire[1].req.query)) = 9

(***************************************************************************)
(* C9 as claimed.  No record given to the logger holds the signature of    *)
(* any request.                                                            *)
(***************************************************************************)
SignatureNeverLogged ==
    \A j \in 1..Len(wire) : \A k \in 1..Len(logs) :
        ~Contains(logs[k].text, Digest(wire[j].req.query))

(***************************************************************************)
(* C9 amended.  The signature is not kept out of the log: the REQUEST      *)
(* record of every request holds the full signed query, signature          *)
(* included.  What is never given to the logger is the API secret.         *)
(***************************************************************************)
HasRun(text, run) ==
    \E k \in 1..(Len(text) - Len(run) + 1) : SubSeq(text, k, k + Len(run) - 1) = run

RequestRecordHoldsSignedQuery ==
    /\ \A j \in 1..Len(wire) :
          \E k \in 1..Len(logs) :
              /\ logs[k].text = <<"REQUEST -> ">> \o wire[j].req.method \o <<" ">>
                                \o wire[j].req.url \o <<"?">> \o wire[j].req.query
              /\ Contains(logs[k].text, Digest(wire[j].req.query))
    /\ \A k \in 1..Len(logs) : ~HasRun(logs[k].text, api_secret)

RequestRecordHoldsSignedQueryWitness ==
    /\ pc = "done" /\ call.op = "twap" /\ Len(wire) = 2
    /\ Cardinality({k \in 1..Len(logs) : logs[k].text[1] = "REQUEST -> "}) = 2

(***************************************************************************)
(* C10.  place_market_order as claimed: the signed query carries symbol    *)
(* (uppercased), side (uppercased), type=MARKET, quantity as a decimal     *)
(* string, reduceOnly as true/false, then timestamp and signature.         *)
(***************************************************************************)
\* the decimal notation of a multiple of 10^-8: digits, a point, digits
PlainDecimal(x) ==
    IntStr(x.w) \o <<".">> \o (IF x.n = 0 THEN <<"0">> ELSE StripZeros(Padded(x.n, ROUND_DIGITS)))

MarketOrderQuery ==
    (pc = "done" /\ call.op = "market") =>
        LET pairs == ParseQuery(wire[1].req.query)
        IN  /\ Keys(pairs) = <<Chars("symbol"), Chars("side"), Chars("type"), Chars("quantity"),
                               Chars("reduceOnly"), Chars("timestamp"), Chars("signature")>>
            /\ pairs[1][2] = quote_plus(Upper(call.symbol))
            /\ pairs[2][2] = Upper(call.side)
            /\ pairs[3][2] = Chars("MARKET")
            /\ \A k \in 1..Len(pairs[4][2]) : pairs[4][2][k] \in DigitChars \cup {"."}
            /\ pairs[4][2] = PlainDecimal(call.quantity)
            /\ pairs[5][2] = IF call.reduce_only THEN <<"t", "r", "u", "e">>
                             ELSE <<"f", "a", "l", "s", "e">>
====
